---- MODULE Spec2Model ----
(***************************************************************************)
(* State-machine model of WebSocketService (src/src/services/websocket.ts, *)
(* final revision, lines 325-635): connection lifecycle, exponential       *)
(* backoff, per-screen activity tracking, the periodic activity sweep and  *)
(* the de-duplicated 'screen-status-change' notifications.                 *)
(*                                                                         *)
(* Every handler of the class is an operator from a service record to the  *)
(* service record after the handler returned, nested calls included.  An   *)
(* action of the state machine is one turn of the browser's event loop:    *)
(* it applies one handler to the current state.                            *)
(***************************************************************************)
EXTENDS Integers, Sequences, FiniteSets, TLC

VARIABLES
  socket,                 \* this.socket: a transport, or Null
  readyState,             \* readyState of every transport created by the service
  reconnectAttempts,      \* this.reconnectAttempts
  reconnectTimeout,       \* this.reconnectTimeout: "null", or a handle whose timer is "pending" or has "fired"
  reconnectDelay,         \* delay given to the last setTimeout (fixed point, see DelayScale)
  pingInterval,           \* this.pingInterval: TRUE when it holds a handle
  activityCheckInterval,  \* this.activityCheckInterval: TRUE when it holds a handle
  sweepDue,               \* time at which the activity-check interval fires next (see Now)
  timers,                 \* number of live browser timers of each class
  activityTracker,        \* this.activityTracker: screenId -> [lastUpdate, isOnline]
  lastNotificationStatus, \* this.lastNotificationStatus: normalized username -> BOOLEAN
  mounted,                \* the Dashboard (and so every ScreenCard <img>) is in the document
  selectedScreen,         \* Dashboard.selectedScreen: the name whose ScreenModal is shown, or NoScreen
  cardOffline,            \* Dashboard.collaborators[..].isOffline, where a specification records it
  modalOffline,           \* ScreenModal: the status read from isScreenOnline when the modal was
                          \*              opened, where a specification records it
  throws,                 \* new WebSocket(CONFIG.WS_URL) throws on this page
  events,                 \* 'screen-status-change' events dispatched in the last step
  sent,                   \* messages written to a transport in the last step
  images,                 \* ids of the <img> elements written in the last step, where a specification records it
  lastEvent,              \* history: value of the last event dispatched for a username
  lastFrame,              \* history: what the last image frame for a username did (see Turn)
  unrouted,               \* history: usernames whose last image frame had an id and a payload and
                          \*          found no <img>, where a specification records it
  offlineSince,           \* history: offline events for a username since its last image frame
  scheduledSinceOpen,     \* history: reconnect timeouts scheduled since the last transport open
  reports,                \* history: "max attempts" reports since the last connect() call or open
  shutdown,               \* history: the host's last lifecycle call was disconnect()
  lastOp                  \* history: the operation of the last step, where a specification records it

vars == <<socket, readyState, reconnectAttempts, reconnectTimeout, reconnectDelay,
          pingInterval, activityCheckInterval, sweepDue, timers, activityTracker,
          lastNotificationStatus, mounted, selectedScreen, cardOffline, modalOffline,
          throws, events, sent, images,
          lastEvent, lastFrame, unrouted, offlineSince, scheduledSinceOpen, reports,
          shutdown, lastOp>>

----------------------------------------------------------------------------
(* CONFIG and the literals of triggerReconnect *)

TIMEOUT_offline == 3000
TIMEOUT_activityCheck == 1000
MAX_RECONNECT_ATTEMPTS == 10
BACKOFF_BASE == 1000
BACKOFF_GROWTH_NUM == 3
BACKOFF_GROWTH_DEN == 2
BACKOFF_CAP == 30000

(* Bounds of the model *)
MaxTransports == 2      \* transports that are not yet CLOSED at the same time
MaxAge == 4500          \* timestamps older than this are all held as this old
MaxFailures == 1        \* Spec: value the relay lets reconnectAttempts reach

(* Time.  Timestamps are held on a clock whose origin is the present       *)
(* instant: Date.now() is Now, and the passing of d ms moves every stored  *)
(* timestamp d ms back.  The handlers read differences of timestamps only. *)
(* The clock is sampled once per sweep period.                             *)
Now == 0
Quantum == TIMEOUT_activityCheck

Null == 0
Transports == 1..MaxTransports

Min(a, b) == IF a <= b THEN a ELSE b
Max(a, b) == IF a >= b THEN a ELSE b

RECURSIVE Pow(_, _)
Pow(b, n) == IF n = 0 THEN 1 ELSE b * Pow(b, n - 1)

----------------------------------------------------------------------------
(* Strings.  A string is a sequence of characters; the seven characters of *)
(* 'screen-' are kept as the one token PREFIX.                             *)

PREFIX == "screen-"

(* The suffix of the id of the modal's <img>: `${screenId}-full` *)
SUFFIX == "-full"

LowerChar(c) == CASE c = "A" -> "a" [] c = "B" -> "b" [] OTHER -> c

ToLowerCase(str) == [i \in 1..Len(str) |-> LowerChar(str[i])]

(* str.replace('screen-', ''): removes the first occurrence only *)
ReplacePrefix(str) ==
  IF \E i \in 1..Len(str) : str[i] = PREFIX
  THEN LET i == CHOOSE k \in 1..Len(str) :
                  str[k] = PREFIX /\ \A j \in 1..(k - 1) : str[j] # PREFIX
       IN SubSeq(str, 1, i - 1) \o SubSeq(str, i + 1, Len(str))
  ELSE str

(* Identifiers the relay may send in the id field of an image message *)
FrameIds == { <<PREFIX, "a">>, <<PREFIX, "A">> }

(* Dashboard.initialCollaborators: the names that have a ScreenCard *)
Collaborators == { <<"A">>, <<"B">> }

(* Dashboard.selectedScreen === null *)
NoScreen == <<>>

(* ScreenCard: const screenId = `screen-${name.toLowerCase()}` *)
CardId(name) == <<PREFIX>> \o ToLowerCase(name)

(* Normalized usernames an event can carry *)
Usernames == { ToLowerCase(ReplacePrefix(id)) : id \in FrameIds }

(* ScreenModal: const modalScreenId = `${screenId}-full` *)
ModalId(name) == CardId(name) \o <<SUFFIX>>

(* document.getElementById(id) finds an <img>: the one of a ScreenCard, or *)
(* the one of the ScreenModal the Dashboard shows                          *)
GetElementById(s, id) ==
  /\ s.mounted
  /\ \/ \E c \in Collaborators : CardId(c) = id
     \/ s.selectedScreen # NoScreen /\ ModalId(s.selectedScreen) = id

Put(f, k, v) == [x \in (DOMAIN f) \cup {k} |-> IF x = k THEN v ELSE f[x]]

(* Keys of an object in a fixed order.  The handlers that iterate call     *)
(* updateScreenStatus with one and the same value for every key, so the    *)
(* order changes the order of the events of one turn and nothing else.     *)
RECURSIVE KeysOf(_)
KeysOf(S) == IF S = {} THEN <<>>
             ELSE LET k == CHOOSE x \in S : TRUE IN <<k>> \o KeysOf(S \ {k})

----------------------------------------------------------------------------
(* The service's handlers.  s is the record of the service's fields, the   *)
(* clock and the document it reads, and the outputs of the current turn.   *)

(* Math.min(1000 * Math.pow(1.5, n), 30000), exact in IEEE doubles for     *)
(* every n up to MAX_RECONNECT_ATTEMPTS, in units of 1/DelayScale ms.      *)
DelayScale == Pow(BACKOFF_GROWTH_DEN, MAX_RECONNECT_ATTEMPTS)

(* Variant: the exponent is the attempt counter before its increment *)
BackoffDelayBeforeIncrement(n) ==
  Min(BACKOFF_BASE * Pow(BACKOFF_GROWTH_NUM, n - 1)
                   * Pow(BACKOFF_GROWTH_DEN, MAX_RECONNECT_ATTEMPTS - (n - 1)),
      BACKOFF_CAP * DelayScale)

BackoffDelay(n) ==
  Min(BACKOFF_BASE * Pow(BACKOFF_GROWTH_NUM, n)
                   * Pow(BACKOFF_GROWTH_DEN, MAX_RECONNECT_ATTEMPTS - n),
      BACKOFF_CAP * DelayScale)

(* isScreenOnline(username) *)
IsScreenOnline(s, username) ==
  LET screenId == <<PREFIX>> \o ToLowerCase(username)
  IN  /\ screenId \in DOMAIN s.activityTracker
      /\ s.activityTracker[screenId].isOnline

(* Variant: send() writes to any socket it holds, whatever its state *)
SendIgnoresState(s, type) ==
  IF s.socket # Null
  THEN [s EXCEPT !.sent = Append(@, <<s.socket, type>>)]
  ELSE s

(* send(message) *)
Send(s, type) ==
  IF s.socket # Null /\ s.readyState[s.socket] = "OPEN"
  THEN [s EXCEPT !.sent = Append(@, <<s.socket, type>>)]
  ELSE s

(* Variant: the timestamp of a record that exists is kept *)
UpdateActivityKeepsStamp(s, screenId, isOnline) ==
  [s EXCEPT !.activityTracker =
              Put(@, screenId,
                  [lastUpdate |-> IF screenId \in DOMAIN @ THEN @[screenId].lastUpdate ELSE Now,
                   isOnline |-> isOnline])]

(* updateActivity(screenId, isOnline) *)
UpdateActivity(s, screenId, isOnline) ==
  [s EXCEPT !.activityTracker =
              Put(@, screenId, [lastUpdate |-> Now, isOnline |-> isOnline])]

(* updateScreenStatus(username, isOnline) *)
(* Variant: every call dispatches an event *)
UpdateScreenStatusNoDedup(s, username, isOnline) ==
  LET normalizedUsername == ToLowerCase(username)
  IN  [s EXCEPT !.lastNotificationStatus = Put(@, normalizedUsername, isOnline),
                !.events = Append(@, <<normalizedUsername, isOnline>>)]

(* Variant: only repeated online notifications are suppressed *)
UpdateScreenStatusDedupOnline(s, username, isOnline) ==
  LET normalizedUsername == ToLowerCase(username)
  IN  IF /\ isOnline
         /\ normalizedUsername \in DOMAIN s.lastNotificationStatus
         /\ s.lastNotificationStatus[normalizedUsername] = isOnline
      THEN s
      ELSE [s EXCEPT !.lastNotificationStatus = Put(@, normalizedUsername, isOnline),
                     !.events = Append(@, <<normalizedUsername, isOnline>>)]

(* Variant: offline notifications are recorded but not dispatched *)
UpdateScreenStatusOnlineOnly(s, username, isOnline) ==
  LET normalizedUsername == ToLowerCase(username)
  IN  IF /\ normalizedUsername \in DOMAIN s.lastNotificationStatus
         /\ s.lastNotificationStatus[normalizedUsername] = isOnline
      THEN s
      ELSE [s EXCEPT !.lastNotificationStatus = Put(@, normalizedUsername, isOnline),
                     !.events = IF isOnline THEN Append(@, <<normalizedUsername, isOnline>>)
                                ELSE @]

UpdateScreenStatus(s, username, isOnline) ==
  LET normalizedUsername == ToLowerCase(username)
  IN  IF /\ normalizedUsername \in DOMAIN s.lastNotificationStatus
         /\ s.lastNotificationStatus[normalizedUsername] = isOnline
      THEN s
      ELSE [s EXCEPT !.lastNotificationStatus = Put(@, normalizedUsername, isOnline),
                     !.events = Append(@, <<normalizedUsername, isOnline>>)]

(* Object.keys(this.activityTracker).forEach(screenId =>                   *)
(*   this.updateScreenStatus(screenId.replace('screen-', ''), false))      *)
RECURSIVE MarkAllOffline(_, _)
MarkAllOffline(s, keys) ==
  IF keys = <<>> THEN s
  ELSE MarkAllOffline(UpdateScreenStatus(s, ReplacePrefix(Head(keys)), FALSE), Tail(keys))

(* checkActivity(): entries holds the records as they were when the sweep  *)
(* started (Object.entries)                                                *)
RECURSIVE CheckEntries(_, _, _)
CheckEntries(s, entries, keys) ==
  IF keys = <<>> THEN s
  ELSE LET screenId == Head(keys)
           activity == entries[screenId]
       IN  IF activity.isOnline /\ Now - activity.lastUpdate > TIMEOUT_offline
           THEN CheckEntries(
                  UpdateScreenStatus(UpdateActivity(s, screenId, FALSE),
                                     ReplacePrefix(screenId), FALSE),
                  entries, Tail(keys))
           ELSE CheckEntries(s, entries, Tail(keys))

(* Variant: a record is demoted as soon as its age reaches the threshold *)
RECURSIVE CheckEntriesAtThreshold(_, _, _)
CheckEntriesAtThreshold(s, entries, keys) ==
  IF keys = <<>> THEN s
  ELSE LET screenId == Head(keys)
           activity == entries[screenId]
       IN  IF activity.isOnline /\ Now - activity.lastUpdate >= TIMEOUT_offline
           THEN CheckEntriesAtThreshold(
                  UpdateScreenStatus(UpdateActivity(s, screenId, FALSE),
                                     ReplacePrefix(screenId), FALSE),
                  entries, Tail(keys))
           ELSE CheckEntriesAtThreshold(s, entries, Tail(keys))

CheckActivityAtThreshold(s) ==
  CheckEntriesAtThreshold(s, s.activityTracker, KeysOf(DOMAIN s.activityTracker))

CheckActivity(s) == CheckEntries(s, s.activityTracker, KeysOf(DOMAIN s.activityTracker))

(* stopActivityCheck() *)
StopActivityCheck(s) ==
  IF s.activityCheckInterval
  THEN [s EXCEPT !.activityCheckInterval = FALSE, !.timers.sweep = @ - 1]
  ELSE s

(* startActivityCheck() *)
StartActivityCheck(s) ==
  [StopActivityCheck(s) EXCEPT !.activityCheckInterval = TRUE,
                               !.timers.sweep = @ + 1,
                               !.sweepDue = Now + TIMEOUT_activityCheck]

(* stopPingInterval() *)
StopPingInterval(s) ==
  IF s.pingInterval
  THEN [s EXCEPT !.pingInterval = FALSE, !.timers.ping = @ - 1]
  ELSE s

(* Variant: the interval is started without clearing the one held *)
StartPingIntervalKeepsOld(s) ==
  [s EXCEPT !.pingInterval = TRUE, !.timers.ping = @ + 1]

(* startPingInterval() *)
StartPingInterval(s) ==
  [StopPingInterval(s) EXCEPT !.pingInterval = TRUE, !.timers.ping = @ + 1]

(* window.clearTimeout(this.reconnectTimeout); this.reconnectTimeout = null *)
ClearReconnectTimeout(s) ==
  IF s.reconnectTimeout # "null"
  THEN [s EXCEPT !.reconnectTimeout = "null",
                 !.timers.reconnect = IF s.reconnectTimeout = "pending" THEN @ - 1 ELSE @]
  ELSE s

(* triggerReconnect() *)
TriggerReconnect(s) ==
  LET s1 == ClearReconnectTimeout(s)
  IN  IF s1.reconnectAttempts < MAX_RECONNECT_ATTEMPTS
      THEN [s1 EXCEPT !.reconnectAttempts = @ + 1,
                      !.reconnectDelay = BackoffDelay(s1.reconnectAttempts + 1),
                      !.reconnectTimeout = "pending",
                      !.timers.reconnect = @ + 1,
                      !.scheduled = @ + 1]
      ELSE [s1 EXCEPT !.exhausted = @ + 1]

(* new WebSocket(CONFIG.WS_URL): the transport object the constructor      *)
(* returns.  A transport that is CLOSED delivers no further event, so its  *)
(* slot is taken again.                                                    *)
FreeTransports(s) == { t \in Transports : s.readyState[t] \in {"NONE", "CLOSED"} }

NewWebSocket(s) == CHOOSE t \in FreeTransports(s) : \A u \in FreeTransports(s) : t <= u

(* Variant: connect() without the check of the OPEN socket *)
ConnectIgnoresOpen(s, created) ==
  IF created
  THEN IF FreeTransports(s) = {} THEN s
       ELSE LET t == NewWebSocket(s)
            IN  StartActivityCheck(StartPingInterval(
                  [s EXCEPT !.socket = t, !.readyState[t] = "CONNECTING"]))
  ELSE TriggerReconnect(s)

(* Variant: a call of connect() gives the attempts back *)
ConnectResetsAttempts(s, created) ==
  IF s.socket # Null /\ s.readyState[s.socket] = "OPEN"
  THEN s
  ELSE IF created
       THEN LET t == NewWebSocket(s)
            IN  StartActivityCheck(StartPingInterval(
                  [s EXCEPT !.socket = t, !.readyState[t] = "CONNECTING",
                            !.reconnectAttempts = 0]))
       ELSE TriggerReconnect([s EXCEPT !.reconnectAttempts = 0])

(* Variant: the catch block of connect() only logs *)
ConnectSwallowsFailure(s, created) ==
  IF s.socket # Null /\ s.readyState[s.socket] = "OPEN"
  THEN s
  ELSE IF created
       THEN LET t == NewWebSocket(s)
            IN  StartActivityCheck(StartPingInterval(
                  [s EXCEPT !.socket = t, !.readyState[t] = "CONNECTING"]))
       ELSE s

(* connect(); created is FALSE when the WebSocket constructor throws *)
Connect(s, created) ==
  IF s.socket # Null /\ s.readyState[s.socket] = "OPEN"
  THEN s
  ELSE IF created
       THEN LET t == NewWebSocket(s)
            IN  StartActivityCheck(StartPingInterval(
                  [s EXCEPT !.socket = t, !.readyState[t] = "CONNECTING"]))
       ELSE TriggerReconnect(s)

(* handleOpen() *)
HandleOpen(s) == Send([s EXCEPT !.reconnectAttempts = 0], "identify")

(* Variant: the modal's <img> is written whenever the card's is *)
HandleMessageModalWithCard(s, m) ==
  IF ~m.parsable THEN s
  ELSE IF m.type = "image" /\ m.id # <<>>
       THEN LET s1 == UpdateActivity(s, m.id, TRUE)
            IN  IF GetElementById(s1, m.id) /\ m.hasData
                THEN UpdateScreenStatus(
                       [s1 EXCEPT !.images = @ \cup {m.id, m.id \o <<SUFFIX>>}],
                       ReplacePrefix(m.id), TRUE)
                ELSE s1
       ELSE s

(* handleMessage(event) *)
HandleMessage(s, m) ==
  IF ~m.parsable THEN s
  ELSE IF m.type = "image" /\ m.id # <<>>
       THEN LET s1 == UpdateActivity(s, m.id, TRUE)
                s2 == IF GetElementById(s1, m.id) /\ m.hasData
                      THEN UpdateScreenStatus([s1 EXCEPT !.images = @ \cup {m.id}],
                                              ReplacePrefix(m.id), TRUE)
                      ELSE s1
            IN  IF GetElementById(s2, m.id \o <<SUFFIX>>) /\ m.hasData
                THEN [s2 EXCEPT !.images = @ \cup {m.id \o <<SUFFIX>>}]
                ELSE s2
       ELSE s

(* Variant: an error event starts the recovery itself *)
HandleErrorReconnects(s) == TriggerReconnect(s)

(* handleError(error) *)
HandleError(s) == s

(* handleClose(event) *)
HandleClose(s) ==
  LET s1 == StopActivityCheck(StopPingInterval(s))
  IN  TriggerReconnect(MarkAllOffline(s1, KeysOf(DOMAIN s1.activityTracker)))

(* Variant: a ping that cannot be written schedules a reconnect *)
SendPingOrReconnect(s) ==
  IF s.socket # Null /\ s.readyState[s.socket] = "OPEN"
  THEN Send(s, "ping")
  ELSE TriggerReconnect(s)

(* sendPing() *)
SendPing(s) == Send(s, "ping")

(* socket.close() *)
CloseSocket(s) ==
  IF s.readyState[s.socket] \in {"CONNECTING", "OPEN"}
  THEN [s EXCEPT !.readyState[s.socket] = "CLOSING"]
  ELSE s

(* Variant: disconnect() also resets the attempt counter *)
DisconnectResetsAttempts(s) ==
  LET s1 == IF s.socket # Null THEN [CloseSocket(s) EXCEPT !.socket = Null] ELSE s
      s2 == StopActivityCheck(StopPingInterval(ClearReconnectTimeout(s1)))
  IN  [MarkAllOffline(s2, KeysOf(DOMAIN s2.activityTracker)) EXCEPT !.reconnectAttempts = 0]

(* disconnect() *)
Disconnect(s) ==
  LET s1 == IF s.socket # Null THEN [CloseSocket(s) EXCEPT !.socket = Null] ELSE s
      s2 == StopActivityCheck(StopPingInterval(ClearReconnectTimeout(s1)))
  IN  MarkAllOffline(s2, KeysOf(DOMAIN s2.activityTracker))

----------------------------------------------------------------------------
(* The state machine *)

(* The state a handler starts from: nothing dispatched, sent or logged yet *)
Fresh ==
  [socket |-> socket, readyState |-> readyState,
   reconnectAttempts |-> reconnectAttempts, reconnectTimeout |-> reconnectTimeout,
   reconnectDelay |-> reconnectDelay, pingInterval |-> pingInterval,
   activityCheckInterval |-> activityCheckInterval, sweepDue |-> sweepDue,
   timers |-> timers, activityTracker |-> activityTracker,
   lastNotificationStatus |-> lastNotificationStatus,
   mounted |-> mounted, selectedScreen |-> selectedScreen,
   events |-> <<>>, sent |-> <<>>, images |-> {}, exhausted |-> 0, scheduled |-> 0]

EventsFor(evs, u) == SelectSeq(evs, LAMBDA e : e[1] = u)

OfflineEventsFor(evs, u) == SelectSeq(evs, LAMBDA e : e[1] = u /\ ~e[2])

(* Messages the relay may deliver.  An id of <<>> is a missing (or empty)  *)
(* id, hasData is FALSE for a missing (or empty) data field, and a message *)
(* that is not parsable makes JSON.parse (or the read of message.type)     *)
(* throw inside the handler's try block.                                   *)
Messages ==
  { [parsable |-> FALSE, type |-> "none", id |-> <<>>, hasData |-> FALSE] }
  \cup { [parsable |-> TRUE, type |-> "image", id |-> i, hasData |-> d] :
           i \in FrameIds \cup {<<>>}, d \in BOOLEAN }
  \cup { [parsable |-> TRUE, type |-> "pong", id |-> <<>>, hasData |-> FALSE] }
  \cup { [parsable |-> TRUE, type |-> "other", id |-> i, hasData |-> TRUE] :
           i \in FrameIds }

(* Messages that are not image frames for a screen *)
ControlMessages ==
  { m \in Messages : ~(m.parsable /\ m.type = "image" /\ m.id # <<>>) }

NoMessage == [parsable |-> FALSE, type |-> "none", id |-> <<>>, hasData |-> FALSE]

(* The usernames an inbound message is an image frame for *)
FrameFor(m) ==
  IF m.parsable /\ m.type = "image" /\ m.id # <<>>
  THEN { ToLowerCase(ReplacePrefix(m.id)) } ELSE {}

(* One step of the event loop: operation op, handling message m if it is   *)
(* handleMessage, took the service to r.  The history variables record:    *)
(*   lastFrame[u]  "dropped": the last image frame for u did not reach     *)
(*                 updateScreenStatus; "revived": it did, and found the    *)
(*                 record of its id offline; "edge": it did, and u was not *)
(*                 announced online before; "repeat": it did, and u was    *)
(*                 announced online already.                               *)
Turn(op, r, m) ==
  /\ socket' = r.socket
  /\ readyState' = r.readyState
  /\ reconnectAttempts' = r.reconnectAttempts
  /\ reconnectTimeout' = r.reconnectTimeout
  /\ reconnectDelay' = r.reconnectDelay
  /\ pingInterval' = r.pingInterval
  /\ activityCheckInterval' = r.activityCheckInterval
  /\ sweepDue' = r.sweepDue
  /\ timers' = r.timers
  /\ activityTracker' = r.activityTracker
  /\ lastNotificationStatus' = r.lastNotificationStatus
  /\ mounted' = r.mounted
  /\ selectedScreen' = r.selectedScreen
  /\ throws' = throws
  /\ events' = r.events
  /\ sent' = r.sent
  /\ lastEvent' = [u \in Usernames |->
                     LET e == EventsFor(r.events, u)
                     IN  IF e = <<>> THEN lastEvent[u]
                         ELSE IF e[Len(e)][2] THEN "online" ELSE "offline"]
  /\ lastFrame' = [u \in Usernames |->
                     IF u \notin FrameFor(m) THEN lastFrame[u]
                     ELSE IF ~(GetElementById(r, m.id) /\ m.hasData) THEN "dropped"
                     ELSE IF m.id \in DOMAIN activityTracker
                               /\ ~activityTracker[m.id].isOnline THEN "revived"
                     ELSE IF lastEvent[u] = "online" THEN "repeat" ELSE "edge"]
  /\ offlineSince' = [u \in Usernames |->
                        IF u \in FrameFor(m) THEN 0
                        ELSE Min(2, offlineSince[u] + Len(OfflineEventsFor(r.events, u)))]
  /\ scheduledSinceOpen' = IF op = "handleOpen" THEN 0
                            ELSE Min(MAX_RECONNECT_ATTEMPTS + 1, scheduledSinceOpen + r.scheduled)
  /\ reports' = Min(2, (IF op \in {"connect", "handleOpen"} THEN 0 ELSE reports) + r.exhausted)
  /\ shutdown' = CASE op = "disconnect" -> TRUE
                   [] op = "connect" -> FALSE
                   [] OTHER -> shutdown

Init ==
  /\ socket = Null
  /\ readyState = [t \in Transports |-> "NONE"]
  /\ reconnectAttempts = 0
  /\ reconnectTimeout = "null"
  /\ reconnectDelay = 0
  /\ pingInterval = FALSE
  /\ activityCheckInterval = FALSE
  /\ sweepDue = Now
  /\ timers = [reconnect |-> 0, ping |-> 0, sweep |-> 0]
  /\ activityTracker = [id \in {} |-> 0]
  /\ lastNotificationStatus = [u \in {} |-> FALSE]
  /\ mounted = FALSE
  /\ selectedScreen = NoScreen
  /\ cardOffline = [c \in Collaborators |-> TRUE]
  /\ modalOffline = FALSE
  /\ throws \in BOOLEAN
  /\ events = <<>>
  /\ sent = <<>>
  /\ images = {}
  /\ lastEvent = [u \in Usernames |-> "none"]
  /\ lastFrame = [u \in Usernames |-> "none"]
  /\ unrouted = {}
  /\ offlineSince = [u \in Usernames |-> 0]
  /\ scheduledSinceOpen = 0
  /\ reports = 0
  /\ shutdown = FALSE
  /\ lastOp = "constructor"

(* connect() creates a transport unless the socket is OPEN or the          *)
(* constructor throws, which the URL and the page decide once and for all; *)
(* the model holds MaxTransports live transports.                          *)
CanConnect(s) ==
  (~throws /\ ~(s.socket # Null /\ s.readyState[s.socket] = "OPEN")) => FreeTransports(s) # {}

(* The host calls connect() *)
ConnectCall ==
  /\ CanConnect(Fresh)
  /\ Turn("connect", Connect(Fresh, ~throws), NoMessage)

(* The host calls disconnect() *)
DisconnectCall == Turn("disconnect", Disconnect(Fresh), NoMessage)

(* A caller hands send() a message of its own *)
SendCall == Turn("send", Send(Fresh, "message"), NoMessage)

(* The reconnect timeout fires: () => { this.connect() } *)
ReconnectTimerFires ==
  /\ timers.reconnect > 0
  /\ LET s == [Fresh EXCEPT !.reconnectTimeout = "fired", !.timers.reconnect = @ - 1]
     IN  /\ CanConnect(s)
         /\ Turn("reconnectTimer", Connect(s, ~throws), NoMessage)

(* The ping interval fires *)
PingTimerFires ==
  /\ timers.ping > 0
  /\ Turn("sendPing", SendPing(Fresh), NoMessage)

(* The activity-check interval fires *)
SweepTimerFires ==
  /\ timers.sweep > 0
  /\ sweepDue = Now
  /\ Turn("checkActivity",
          CheckActivity([Fresh EXCEPT !.sweepDue = @ + TIMEOUT_activityCheck]), NoMessage)

(* Transport t opens *)
TransportOpen(t) ==
  /\ readyState[t] = "CONNECTING"
  /\ Turn("handleOpen", HandleOpen([Fresh EXCEPT !.readyState[t] = "OPEN"]), NoMessage)

(* Transport t delivers message m *)
TransportMessage(t, m) ==
  /\ readyState[t] = "OPEN"
  /\ Turn("handleMessage", HandleMessage(Fresh, m), m)

(* Transport t reports an error *)
TransportError(t) ==
  /\ readyState[t] \in {"CONNECTING", "OPEN", "CLOSING"}
  /\ Turn("handleError", HandleError(Fresh), NoMessage)

(* Transport t closes *)
TransportClose(t) ==
  /\ readyState[t] \in {"CONNECTING", "OPEN", "CLOSING"}
  /\ Turn("handleClose", HandleClose([Fresh EXCEPT !.readyState[t] = "CLOSED"]), NoMessage)

(* The Dashboard is mounted or unmounted; its state goes with it *)
SetMounted ==
  /\ mounted' = ~mounted
  /\ selectedScreen' = NoScreen
  /\ events' = <<>>
  /\ sent' = <<>>
  /\ UNCHANGED <<socket, readyState, reconnectAttempts, reconnectTimeout, reconnectDelay,
                 pingInterval, activityCheckInterval, sweepDue, timers, activityTracker,
                 lastNotificationStatus, throws, lastEvent, lastFrame, offlineSince,
                 scheduledSinceOpen, reports, shutdown>>

(* Dashboard.handleOpenModal(name): a ScreenCard is clicked *)
OpenModal(name) ==
  /\ mounted
  /\ selectedScreen' = name
  /\ events' = <<>>
  /\ sent' = <<>>
  /\ UNCHANGED <<socket, readyState, reconnectAttempts, reconnectTimeout, reconnectDelay,
                 pingInterval, activityCheckInterval, sweepDue, timers, activityTracker,
                 lastNotificationStatus, mounted, throws, lastEvent, lastFrame, offlineSince,
                 scheduledSinceOpen, reports, shutdown>>

(* Dashboard.handleCloseModal() *)
CloseModal ==
  /\ selectedScreen # NoScreen
  /\ selectedScreen' = NoScreen
  /\ events' = <<>>
  /\ sent' = <<>>
  /\ UNCHANGED <<socket, readyState, reconnectAttempts, reconnectTimeout, reconnectDelay,
                 pingInterval, activityCheckInterval, sweepDue, timers, activityTracker,
                 lastNotificationStatus, mounted, throws, lastEvent, lastFrame, offlineSince,
                 scheduledSinceOpen, reports, shutdown>>

(* d ms pass: at most Quantum, and no further than the next expiry of the *)
(* activity-check interval                                                 *)
Elapse(stamp, d) == Max(stamp - d, Now - MaxAge)

Tick ==
  /\ timers.sweep > 0 => sweepDue > Now
  /\ LET d == IF timers.sweep > 0 THEN Min(Quantum, sweepDue - Now) ELSE Quantum
     IN  /\ sweepDue' = IF timers.sweep > 0 THEN sweepDue - d ELSE sweepDue
         /\ activityTracker' =
              [id \in DOMAIN activityTracker |->
                 [activityTracker[id] EXCEPT !.lastUpdate = Elapse(@, d)]]
  /\ events' = <<>>
  /\ sent' = <<>>
  /\ UNCHANGED <<socket, readyState, reconnectAttempts, reconnectTimeout, reconnectDelay,
                 pingInterval, activityCheckInterval, timers,
                 lastNotificationStatus, mounted, selectedScreen, throws, lastEvent, lastFrame,
                 offlineSince, scheduledSinceOpen, reports, shutdown>>

(* Spec: every operation the Dashboard drives and every message; the      *)
(* relay refuses at most MaxFailures connections in a row.                 *)
Next ==
  /\ \/ ConnectCall
     \/ DisconnectCall
     \/ ReconnectTimerFires
     \/ PingTimerFires
     \/ SweepTimerFires
     \/ \E t \in Transports : TransportOpen(t)
     \/ \E t \in Transports, m \in Messages : TransportMessage(t, m)
     \/ \E t \in Transports : TransportError(t)
     \/ \E t \in Transports : TransportClose(t)
     \/ SetMounted
     \/ Tick
  /\ reconnectAttempts' <= MaxFailures
  /\ lastOp' = lastOp
  /\ UNCHANGED <<images, unrouted, cardOffline, modalOffline>>

Spec == Init /\ [][Next]_vars

(* SpecBackoff: the connection manager up to the exhaustion of the         *)
(* reconnect attempts; the relay sends no image frame.                     *)
NextBackoff ==
  /\ \/ ConnectCall
     \/ DisconnectCall
     \/ ReconnectTimerFires
     \/ PingTimerFires
     \/ SweepTimerFires
     \/ \E t \in Transports : TransportOpen(t)
     \/ \E t \in Transports, m \in ControlMessages : TransportMessage(t, m)
     \/ \E t \in Transports : TransportError(t)
     \/ \E t \in Transports : TransportClose(t)
     \/ Tick
  /\ lastOp' = lastOp
  /\ UNCHANGED <<images, unrouted, cardOffline, modalOffline>>

SpecBackoff == Init /\ [][NextBackoff]_vars

(* SpecApi: the service within one period of the activity check, with     *)
(* calls of send() by other modules; lastOp records the operation of the   *)
(* last step.  The relay refuses at most MaxFailures connections in a row. *)
NextApi ==
  /\ \/ ConnectCall /\ lastOp' = "connect"
     \/ DisconnectCall /\ lastOp' = "disconnect"
     \/ SendCall /\ lastOp' = "send"
     \/ ReconnectTimerFires /\ lastOp' = "reconnectTimer"
     \/ PingTimerFires /\ lastOp' = "sendPing"
     \/ \E t \in Transports : TransportOpen(t) /\ lastOp' = "handleOpen"
     \/ \E t \in Transports, m \in Messages :
          /\ TransportMessage(t, m)
          /\ lastOp' = (IF m.parsable THEN m.type ELSE "unparsable")
     \/ \E t \in Transports : TransportError(t) /\ lastOp' = "handleError"
     \/ \E t \in Transports : TransportClose(t) /\ lastOp' = "handleClose"
     \/ SetMounted /\ lastOp' = "mount"
  /\ reconnectAttempts' <= MaxFailures
  /\ UNCHANGED <<images, unrouted, cardOffline, modalOffline>>

SpecApi == Init /\ [][NextApi]_vars

(* An image message with an id and a payload *)
WellFormed(m) == m.parsable /\ m.type = "image" /\ m.id # <<>> /\ m.hasData

(* A well-formed frame whose id is the id of no <img> in the document *)
Untargeted(m) ==
  /\ WellFormed(m)
  /\ ~GetElementById(Fresh, m.id)
  /\ ~GetElementById(Fresh, m.id \o <<SUFFIX>>)

(* Messages whose id, if they have one, is the id of a ScreenCard *)
CardMessages ==
  { m \in Messages : m.id = <<>> \/ \E c \in Collaborators : CardId(c) = m.id }

(* SpecFrames: the frame router with the Dashboard's cards and modal; the  *)
(* relay names the screens as the cards do, and images records the <img>   *)
(* elements a step wrote.  The relay refuses at most MaxFailures           *)
(* connections in a row.                                                   *)
NextFrames ==
  /\ \/ \E t \in Transports, m \in CardMessages :
          /\ TransportMessage(t, m)
          /\ images' = HandleMessage(Fresh, m).images
          /\ unrouted' = IF Untargeted(m) THEN unrouted \cup FrameFor(m)
                                          ELSE unrouted \ FrameFor(m)
     \/ /\ \/ ConnectCall
           \/ DisconnectCall
           \/ ReconnectTimerFires
           \/ SweepTimerFires
           \/ \E t \in Transports : TransportOpen(t)
           \/ \E t \in Transports : TransportClose(t)
           \/ SetMounted
           \/ \E name \in Collaborators : OpenModal(name)
           \/ CloseModal
           \/ Tick
        /\ images' = {}
        /\ unrouted' = unrouted
  /\ reconnectAttempts' <= MaxFailures
  /\ lastOp' = lastOp
  /\ UNCHANGED <<cardOffline, modalOffline>>

SpecFrames == Init /\ [][NextFrames]_vars

(* Dashboard.handleScreenStatusChange, for every event of evs in turn: the *)
(* collaborator whose lowercased name is the event's username gets         *)
(* isOffline = !isOnline                                                   *)
RECURSIVE HandleScreenStatusChange(_, _)
HandleScreenStatusChange(cards, evs) ==
  IF evs = <<>> THEN cards
  ELSE HandleScreenStatusChange(
         [c \in DOMAIN cards |->
            IF ToLowerCase(c) = ToLowerCase(Head(evs)[1]) THEN ~Head(evs)[2] ELSE cards[c]],
         Tail(evs))

(* SpecDashboard: SpecFrames seen from the Dashboard.  cardOffline is the  *)
(* status the cards show: all offline when the Dashboard is mounted, then  *)
(* what its listener made of the events dispatched while it is mounted.    *)
(* modalOffline is the status the ScreenModal read from isScreenOnline     *)
(* when it was opened.                                                     *)
NextDashboard ==
  /\ \/ /\ \/ ConnectCall
           \/ DisconnectCall
           \/ ReconnectTimerFires
           \/ SweepTimerFires
           \/ \E t \in Transports : TransportOpen(t)
           \/ \E t \in Transports, m \in CardMessages : TransportMessage(t, m)
           \/ \E t \in Transports : TransportClose(t)
           \/ Tick
        /\ cardOffline' = IF mounted THEN HandleScreenStatusChange(cardOffline, events')
                                     ELSE cardOffline
        /\ modalOffline' = modalOffline
     \/ /\ SetMounted
        /\ cardOffline' = [c \in Collaborators |-> TRUE]
        /\ modalOffline' = FALSE
     \/ \E name \in Collaborators :
          /\ OpenModal(name)
          /\ modalOffline' = ~IsScreenOnline(Fresh, name)
          /\ cardOffline' = cardOffline
     \/ /\ CloseModal
        /\ modalOffline' = FALSE
        /\ cardOffline' = cardOffline
  /\ reconnectAttempts' <= MaxFailures
  /\ lastOp' = lastOp
  /\ UNCHANGED <<images, unrouted>>

SpecDashboard == Init /\ [][NextDashboard]_vars

(* Frames that have the id of a card and a payload *)
CardFrames == { m \in CardMessages : WellFormed(m) }

(* SpecLive: the connection manager and the activity check over unbounded  *)
(* time.  Browser timers that are due fire, and time passes: the reconnect *)
(* timeout, the activity-check interval and the clock are weakly fair,     *)
(* and a transport that is connecting or closing ends up open or closed.   *)
(* The host calls connect() as the Dashboard does, when it is mounted and  *)
(* the service holds no socket; the relay is under no other obligation.    *)
Unrecorded == lastOp' = lastOp /\ UNCHANGED <<images, unrouted, cardOffline, modalOffline>>

NextLive ==
  /\ \/ ConnectCall /\ socket = Null
     \/ ReconnectTimerFires
     \/ SweepTimerFires
     \/ \E t \in Transports : TransportOpen(t)
     \/ \E t \in Transports, m \in CardFrames : TransportMessage(t, m)
     \/ \E t \in Transports : TransportClose(t)
     \/ Tick
  /\ Unrecorded

SpecLive ==
  /\ Init /\ [][NextLive]_vars
  /\ WF_vars(ReconnectTimerFires /\ Unrecorded)
  /\ WF_vars(SweepTimerFires /\ Unrecorded)
  /\ WF_vars(Tick /\ Unrecorded)
  /\ \A t \in Transports :
       WF_vars(/\ readyState[t] \in {"CONNECTING", "CLOSING"}
               /\ (TransportOpen(t) \/ TransportClose(t))
               /\ Unrecorded)

----------------------------------------------------------------------------
(* Properties *)

(* The service after the step *)
Online(u) == IsScreenOnline(Fresh, u)

(* Some record of username u is tracked as online *)
TrackedOnline(u) ==
  \E id \in DOMAIN activityTracker :
    /\ ToLowerCase(ReplacePrefix(id)) = u
    /\ activityTracker[id].isOnline

(* The step handles an image frame for username u *)
FrameStep(u) ==
  \E t \in Transports, m \in Messages : TransportMessage(t, m) /\ u \in FrameFor(m)

(* C1: after disconnect() returns, isScreenOnline(s) is false for every    *)
(* screen s, and it stays false until a frame for s is handled.            *)
C1_DisconnectMarksOffline ==
  [][ /\ DisconnectCall => \A u \in Usernames : ~Online(u)'
      /\ \A u \in Usernames : (~Online(u) /\ Online(u)') => FrameStep(u) ]_vars

(* C2: after disconnect() and until the host calls connect() again, no     *)
(* ping, activity-check or reconnect timer is live (so none fires or is    *)
(* scheduled) and the service holds no transport.                          *)
C2_DisconnectIsQuiet ==
  shutdown => /\ timers.ping = 0
              /\ timers.sweep = 0
              /\ timers.reconnect = 0
              /\ socket = Null

(* C3: after a transport close event is handled, every tracked screen is   *)
(* offline (and stays so until a frame for it is handled), the ping and    *)
(* activity-check timers are stopped, and a reconnect is scheduled while   *)
(* the attempt counter is below the maximum.                               *)
C3_CloseMarksOffline ==
  [][ /\ (\E t \in Transports : TransportClose(t)) =>
           /\ \A u \in Usernames : ~TrackedOnline(u)' /\ ~Online(u)'
           /\ timers'.ping = 0
           /\ timers'.sweep = 0
           /\ reconnectAttempts < MAX_RECONNECT_ATTEMPTS => timers'.reconnect > 0
      /\ \A u \in Usernames : (~Online(u) /\ Online(u)') => FrameStep(u) ]_vars

(* C4: a screen whose last frame was routed (so that its record is the one *)
(* of its card) gets at most one offline event before its next frame, and  *)
(* has got it once the record is offline or the frame is older than the    *)
(* offline threshold plus one sweep period.                                *)
(* The sweep emits none while no record of the screen is over the          *)
(* threshold.                                                              *)
C4_SilenceDemotesOnce ==
  /\ [](\A u \in Usernames :
         lastFrame[u] \in {"revived", "edge", "repeat"} =>
           /\ offlineSince[u] <= 1
           /\ (\/ ~activityTracker[<<PREFIX>> \o u].isOnline
               \/ Now - activityTracker[<<PREFIX>> \o u].lastUpdate
                    > TIMEOUT_offline + TIMEOUT_activityCheck)
              => offlineSince[u] = 1)
  /\ [][ SweepTimerFires =>
           \A u \in Usernames :
             OfflineEventsFor(events', u) # <<>> =>
               \E id \in DOMAIN activityTracker :
                 /\ ToLowerCase(ReplacePrefix(id)) = u
                 /\ activityTracker[id].isOnline
                 /\ Now - activityTracker[id].lastUpdate > TIMEOUT_offline ]_vars

(* Inbound messages that are malformed: not parsable, an image without id  *)
(* or without data, or of an unknown type.                                 *)
Malformed ==
  { m \in Messages : \/ ~m.parsable
                     \/ m.type = "other"
                     \/ m.type = "image" /\ (m.id = <<>> \/ ~m.hasData) }

(* C5: a malformed inbound message changes no liveness record and emits no *)
(* presence event.                                                         *)
C5_MalformedIsDropped ==
  [][ \A t \in Transports, m \in Malformed :
        TransportMessage(t, m) =>
          /\ activityTracker' = activityTracker
          /\ lastNotificationStatus' = lastNotificationStatus
          /\ events' = <<>> ]_vars

(* Subscribers have been told that username u is online *)
Announced(u) ==
  u \in DOMAIN lastNotificationStatus /\ lastNotificationStatus[u]

RECURSIVE Alternates(_, _)
Alternates(prev, evs) ==
  \/ evs = <<>>
  \/ /\ (IF evs[1][2] THEN "online" ELSE "offline") # prev
     /\ Alternates(IF evs[1][2] THEN "online" ELSE "offline", Tail(evs))

(* C7: the events dispatched for one screen alternate between online and   *)
(* offline: no two consecutive events carry the same value.                *)
C7_EventsAlternate ==
  [][ \A u \in Usernames : Alternates(lastEvent[u], EventsFor(events', u)) ]_vars

C7_Witness ==
  /\ lastFrame[<<"a">>] \in {"revived", "edge", "repeat"}
  /\ offlineSince[<<"a">>] = 1
  /\ events = << <<(<<"a">>), FALSE>> >>

(* C8: when the open socket closes with the attempt counter at 0, every    *)
(* screen tracked online gets exactly one offline event and no other       *)
(* screen gets an event, and a reconnect is scheduled with the counter 1.  *)
C8_CloseNotifiesOnlineScreens ==
  [][ \A t \in Transports :
        (TransportClose(t) /\ readyState[t] = "OPEN" /\ socket = t
           /\ reconnectAttempts = 0) =>
          /\ \A u \in Usernames :
               /\ Len(OfflineEventsFor(events', u)) = (IF TrackedOnline(u) THEN 1 ELSE 0)
               /\ Len(EventsFor(events', u)) = Len(OfflineEventsFor(events', u))
          /\ reconnectTimeout' = "pending"
          /\ timers'.reconnect = 1
          /\ reconnectAttempts' = 1 ]_vars

(* Every attempt has failed: the counter is at its maximum, no reconnect   *)
(* timer is pending and no transport is alive.                             *)
Exhausted ==
  /\ reconnectAttempts = MAX_RECONNECT_ATTEMPTS
  /\ timers.reconnect = 0
  /\ \A t \in Transports : readyState[t] \in {"NONE", "CLOSED"}

(* C9: once the attempts are exhausted no reconnect timer is scheduled,    *)
(* and "max attempts reached" is reported exactly once.                    *)
C9_ExhaustionReportedOnce ==
  /\ reports <= 1
  /\ reports >= 1 => timers.reconnect = 0
  /\ (Exhausted /\ ~shutdown) => reports = 1

(* min(base * growth^n, cap), by its recurrence *)
RECURSIVE Grow(_)
Grow(n) ==
  IF n = 0 THEN BACKOFF_BASE * DelayScale
  ELSE (Grow(n - 1) * BACKOFF_GROWTH_NUM) \div BACKOFF_GROWTH_DEN

ExpectedDelay(n) == Min(Grow(n), BACKOFF_CAP * DelayScale)

(* C10: the delay before reconnect attempt n is min(base * growth^n, cap), *)
(* n being the attempt counter after its increment; the delay of attempt   *)
(* n + 1 is not below that of attempt n and none is above the cap.         *)
C10_BackoffDelay ==
  /\ reconnectAttempts >= 1 =>
       /\ reconnectDelay = ExpectedDelay(reconnectAttempts)
       /\ reconnectDelay <= BACKOFF_CAP * DelayScale
  /\ \A n \in 1..(MAX_RECONNECT_ATTEMPTS - 1) : ExpectedDelay(n) <= ExpectedDelay(n + 1)

C10_Witness ==
  /\ reconnectTimeout = "pending"
  /\ reconnectAttempts = MAX_RECONNECT_ATTEMPTS
  /\ reconnectDelay = BACKOFF_CAP * DelayScale

(* C11: the attempt counter goes down only in the step that handles a     *)
(* transport open, which sets it to 0; no other operation lowers it.       *)
C11_OnlyOpenResetsAttempts ==
  [][ reconnectAttempts' < reconnectAttempts =>
        /\ \E t \in Transports : TransportOpen(t)
        /\ reconnectAttempts' = 0 ]_vars

(* disconnect() has cancelled the timer of attempt 1 and kept the counter *)
C11_Witness ==
  /\ shutdown
  /\ reconnectAttempts = 1
  /\ reconnectTimeout = "null"

IsOpen == socket # Null /\ readyState[socket] = "OPEN"

(* C13: connect() called while the connection is Open opens no transport,  *)
(* starts or restarts no timer, and leaves the socket, the attempt         *)
(* counter, the liveness records and the last-notified map unchanged; it   *)
(* dispatches and sends nothing.                                           *)
C13_ConnectWhileOpenIsNoOp ==
  [][ (ConnectCall /\ IsOpen) =>
        /\ UNCHANGED <<socket, readyState, reconnectAttempts, reconnectTimeout,
                       reconnectDelay, pingInterval, activityCheckInterval, sweepDue,
                       timers, activityTracker, lastNotificationStatus>>
        /\ events' = <<>>
        /\ sent' = <<>> ]_vars

(* connect() has returned with the socket OPEN and a screen tracked; a     *)
(* transport that connect() creates is CONNECTING.                         *)
C13_Witness ==
  /\ lastOp = "connect"
  /\ IsOpen
  /\ DOMAIN activityTracker # {}

(* C14: send(message) writes the message to the socket exactly when the   *)
(* connection is Open, and changes no field of the service; a message is   *)
(* written in no other step (nothing is queued), and every write of the    *)
(* service goes to the socket while it is OPEN.                            *)
C14_SendOnlyWhenOpen ==
  [][ /\ SendCall =>
           /\ sent' = (IF IsOpen THEN << <<socket, "message">> >> ELSE <<>>)
           /\ events' = <<>>
           /\ UNCHANGED <<socket, readyState, reconnectAttempts, reconnectTimeout,
                          reconnectDelay, pingInterval, activityCheckInterval, sweepDue,
                          timers, activityTracker, lastNotificationStatus>>
      /\ (\E i \in DOMAIN sent' : sent'[i][2] = "message") => (SendCall /\ IsOpen)
      /\ \A i \in DOMAIN sent' :
           sent'[i][1] = socket' /\ readyState'[sent'[i][1]] = "OPEN" ]_vars

(* send() has returned with the socket still connecting: nothing written *)
C14_Witness ==
  /\ lastOp = "send"
  /\ socket # Null
  /\ readyState[socket] = "CONNECTING"
  /\ sent = <<>>

(* C15: the step that handles the open of transport t sends exactly one   *)
(* identify message, on t; and a ping is written to a transport only after *)
(* its open has been handled (it is OPEN before the step), so after the    *)
(* identify message.                                                       *)
C15_IdentifyOnOpen ==
  [][ /\ \A t \in Transports : TransportOpen(t) => sent' = << <<t, "identify">> >>
      /\ \A i \in DOMAIN sent' :
           sent'[i][2] = "ping" => readyState[sent'[i][1]] = "OPEN" ]_vars

(* The step handles a pong or is a tick of the ping interval *)
KeepaliveStep ==
  \/ PingTimerFires
  \/ \E t \in Transports, m \in Messages : TransportMessage(t, m) /\ m.type = "pong"

(* C16: a reconnect is scheduled (the attempt counter goes up, a timer is  *)
(* added) only in a step that handles a transport close or in which the    *)
(* WebSocket constructor throws; a pong and a tick of the ping interval    *)
(* schedule nothing, close no transport and change no connection state.    *)
C16_ReconnectIsEventDriven ==
  [][ /\ (reconnectAttempts' > reconnectAttempts \/ timers'.reconnect > timers.reconnect) =>
           \/ \E t \in Transports : TransportClose(t)
           \/ throws /\ (ConnectCall \/ ReconnectTimerFires)
      /\ KeepaliveStep =>
           UNCHANGED <<socket, readyState, reconnectAttempts, reconnectTimeout,
                       reconnectDelay, timers>> ]_vars

(* A ping has just been written and no reconnect is scheduled *)
C16_Witness ==
  /\ lastOp = "sendPing"
  /\ sent = << <<socket, "ping">> >>
  /\ reconnectTimeout = "null"
  /\ timers.reconnect = 0

(* The record of id is online and older than the offline threshold *)
Stale(id) ==
  /\ activityTracker[id].isOnline
  /\ Now - activityTracker[id].lastUpdate > TIMEOUT_offline

(* Subscribers have been told that username u is offline *)
AnnouncedOffline(u) ==
  u \in DOMAIN lastNotificationStatus /\ ~lastNotificationStatus[u]

(* C17: a sweep sets isOnline to false for exactly the records that are    *)
(* online and older than the threshold, and leaves every other record as   *)
(* it is; it forwards an offline transition for the demoted records only:  *)
(* the offline event of a username is dispatched when one of its records   *)
(* is demoted, unless subscribers were already told it is offline, and     *)
(* nothing else is dispatched.                                             *)
C17_SweepDemotesStaleRecords ==
  [][ SweepTimerFires =>
        /\ DOMAIN activityTracker' = DOMAIN activityTracker
        /\ \A id \in DOMAIN activityTracker :
             IF Stale(id) THEN ~activityTracker'[id].isOnline
             ELSE activityTracker'[id] = activityTracker[id]
        /\ \A u \in Usernames :
             EventsFor(events', u) =
               (IF /\ \E id \in DOMAIN activityTracker :
                        Stale(id) /\ ToLowerCase(ReplacePrefix(id)) = u
                   /\ ~AnnouncedOffline(u)
                THEN << <<u, FALSE>> >> ELSE <<>>) ]_vars

(* A sweep has just demoted screen-a and left screen-A, whose age is the   *)
(* threshold exactly, online.                                              *)
C17_Witness ==
  /\ DOMAIN activityTracker = {<<PREFIX, "a">>, <<PREFIX, "A">>}
  /\ ~activityTracker[<<PREFIX, "a">>].isOnline
  /\ activityTracker[<<PREFIX, "a">>].lastUpdate = Now
  /\ activityTracker[<<PREFIX, "A">>].isOnline
  /\ Now - activityTracker[<<PREFIX, "A">>].lastUpdate = TIMEOUT_offline
  /\ events = << <<(<<"a">>), FALSE>> >>

(* Image frames that are drawn on a card: the id and the data are there,  *)
(* and the document holds the <img> of that id.                            *)
RoutedFrames ==
  { m \in Messages : /\ m.parsable /\ m.type = "image" /\ m.id # <<>> /\ m.hasData
                     /\ GetElementById(Fresh, m.id) }

(* C18: the event loop handles a frame and a sweep one after the other.    *)
(* A frame stamps the record of its screen with the present instant, and a *)
(* sweep that runs after it at that instant leaves the record as it is; a  *)
(* frame drawn for a screen whose record a sweep has set offline sets it   *)
(* online again and dispatches exactly one online event.                   *)
C18_FrameAndSweepSerialized ==
  [][ /\ \A t \in Transports, m \in RoutedFrames :
           TransportMessage(t, m) =>
             /\ activityTracker'[m.id] = [lastUpdate |-> Now, isOnline |-> TRUE]
             /\ (m.id \in DOMAIN activityTracker /\ ~activityTracker[m.id].isOnline) =>
                  events' = << <<ToLowerCase(ReplacePrefix(m.id)), TRUE>> >>
      /\ SweepTimerFires =>
           \A id \in DOMAIN activityTracker :
             (activityTracker[id].isOnline /\ activityTracker[id].lastUpdate = Now) =>
               activityTracker'[id] = activityTracker[id] ]_vars

(* A frame has just set the record that a sweep had set offline online     *)
(* again, with one online event.                                           *)
C18_Witness ==
  /\ lastFrame[<<"a">>] = "revived"
  /\ <<PREFIX, "a">> \in DOMAIN activityTracker
  /\ activityTracker[<<PREFIX, "a">>] = [lastUpdate |-> Now, isOnline |-> TRUE]
  /\ events = << <<(<<"a">>), TRUE>> >>

(* C19: identifiers are compared without regard to letter case: once an   *)
(* image frame for identifier X has been handled, isScreenOnline(n) is     *)
(* true for every name n whose screen identifier is X up to case; and the  *)
(* tracker never holds two records whose identifiers differ in case only.  *)
C19_IdentifiersIgnoreCase ==
  /\ [][ \A t \in Transports, m \in Messages :
           (TransportMessage(t, m) /\ FrameFor(m) # {}) =>
             \A n \in Usernames \cup Collaborators :
               ToLowerCase(CardId(n)) = ToLowerCase(m.id) => Online(n)' ]_vars
  /\ [](\A x, y \in DOMAIN activityTracker : ToLowerCase(x) = ToLowerCase(y) => x = y)

(* C20: lastUpdate is the time of the last image frame handled for the    *)
(* screen: a record is created or its lastUpdate is written only in the    *)
(* step that handles an image frame for its id; sweeps, closes and         *)
(* disconnect() leave it as it is.  (A Tick moves the origin of the clock, *)
(* not the timestamps.)                                                    *)
C20_LastUpdateIsLastFrame ==
  [][ ~Tick =>
        \A id \in DOMAIN activityTracker' :
          (\/ id \notin DOMAIN activityTracker
           \/ activityTracker'[id].lastUpdate # activityTracker[id].lastUpdate) =>
            \E t \in Transports, m \in Messages :
              TransportMessage(t, m) /\ FrameFor(m) # {} /\ m.id = id ]_vars

(* The ScreenModal of the screen with identifier id is in the document *)
ModalShownFor(id) ==
  mounted /\ selectedScreen # NoScreen /\ ModalId(selectedScreen) = id \o <<SUFFIX>>

(* C21: a frame "screen-<name>" with a payload, handled while <name> is     *)
(* offline and its card is in the document, makes isScreenOnline(<name>)   *)
(* true, dispatches exactly the one event (<name>, true), writes the       *)
(* card's <img>, and writes the modal's <img> if and only if the modal is  *)
(* shown for that identifier.                                              *)
C21_FrameForOfflineScreen ==
  [][ \A t \in Transports, m \in Messages, name \in Usernames :
        ( /\ WellFormed(m)
          /\ m.id = <<PREFIX>> \o name
          /\ ~Online(name)
          /\ mounted /\ \E c \in Collaborators : CardId(c) = m.id
          /\ TransportMessage(t, m) ) =>
            /\ Online(name)'
            /\ events' = << <<name, TRUE>> >>
            /\ m.id \in images'
            /\ (m.id \o <<SUFFIX>> \in images') <=> ModalShownFor(m.id)
            /\ images' \subseteq {m.id, m.id \o <<SUFFIX>>} ]_vars

(* A frame revived a demoted screen and was drawn on its card and modal *)
C21_Witness ==
  /\ lastFrame[<<"a">>] = "revived"
  /\ events = << <<(<<"a">>), TRUE>> >>
  /\ images = {<<PREFIX, "a">>, <<PREFIX, "a", SUFFIX>>}
  /\ selectedScreen = <<"A">>
  /\ IsScreenOnline(Fresh, <<"a">>)

(* C22: a frame with an id and a payload whose id names no <img> (no card  *)
(* and no modal) is dropped: the step that handles it writes no image and  *)
(* dispatches no event, and no later step dispatches an event for a screen *)
(* whose last frame was dropped so, unless subscribers were told before    *)
(* that frame that the screen is online.                                   *)
C22_UntargetedFrameIsDropped ==
  /\ [][ \A t \in Transports, m \in Messages :
           (Untargeted(m) /\ TransportMessage(t, m)) =>
             events' = <<>> /\ images' = {} ]_vars
  /\ [][ \A u \in Usernames :
           (u \in unrouted /\ lastEvent[u] # "online" /\ ~FrameStep(u)) =>
             EventsFor(events', u) = <<>> ]_vars

(* C23: isScreenOnline is a pure read: the step in which the ScreenModal   *)
(* calls it (when the modal is opened) changes no field of the service;    *)
(* and it returns false for a name until a frame with the name's           *)
(* identifier and a payload has been handled, so it turns true only in the *)
(* step that handles such a frame.                                         *)
C23_QueryIsPureAndFalseForUnknown ==
  /\ [][ (\E name \in Collaborators : OpenModal(name)) =>
           UNCHANGED <<socket, readyState, reconnectAttempts, reconnectTimeout,
                       reconnectDelay, pingInterval, activityCheckInterval, sweepDue,
                       timers, activityTracker, lastNotificationStatus>> ]_vars
  /\ [][ \A n \in Usernames \cup Collaborators :
           (~Online(n) /\ Online(n)') =>
             \E t \in Transports, m \in Messages :
               /\ WellFormed(m)
               /\ ToLowerCase(m.id) = CardId(n)
               /\ TransportMessage(t, m) ]_vars

(* The step creates a transport *)
CreatesTransport ==
  \E t \in Transports : readyState'[t] = "CONNECTING" /\ readyState[t] # "CONNECTING"

(* C24: once "max attempts reached" has been reported, and until the host  *)
(* calls connect(), no step creates a transport, no transport opens and no *)
(* reconnect timer is scheduled; a transport that opens sets the counter   *)
(* to 0, and the close of a transport while the counter is below the       *)
(* maximum schedules a reconnect timer again.                              *)
C24_ExhaustionIsTerminal ==
  /\ [][ (reports >= 1 /\ ~ConnectCall) =>
           /\ ~CreatesTransport
           /\ \A t \in Transports : ~TransportOpen(t)
           /\ timers'.reconnect = 0 /\ reconnectTimeout' # "pending" ]_vars
  /\ [][ \A t \in Transports :
           /\ TransportOpen(t) => reconnectAttempts' = 0
           /\ (TransportClose(t) /\ reconnectAttempts < MAX_RECONNECT_ATTEMPTS) =>
                /\ reconnectAttempts' = reconnectAttempts + 1
                /\ reconnectTimeout' = "pending" /\ timers'.reconnect = 1 ]_vars

(* C25: the step that handles a transport error changes no field of the   *)
(* service (socket, timers, attempt counter, liveness records, last        *)
(* notified map), dispatches no event and writes nothing; a reconnect      *)
(* timer is scheduled by the close that follows, not by the error.         *)
C25_ErrorOnlyLogs ==
  [][ \A t \in Transports :
        /\ TransportError(t) =>
             /\ UNCHANGED <<socket, readyState, reconnectAttempts, reconnectTimeout,
                            reconnectDelay, pingInterval, activityCheckInterval, sweepDue,
                            timers, activityTracker, lastNotificationStatus>>
             /\ events' = <<>> /\ sent' = <<>>
        /\ (TransportClose(t) /\ reconnectAttempts < MAX_RECONNECT_ATTEMPTS) =>
             reconnectTimeout' = "pending" /\ reconnectAttempts' = reconnectAttempts + 1 ]_vars

(* An error was handled on the open socket while a screen is tracked *)
C25_Witness ==
  /\ lastOp = "handleError"
  /\ IsOpen
  /\ reconnectTimeout = "null" /\ reconnectAttempts = 0
  /\ pingInterval /\ activityCheckInterval
  /\ DOMAIN activityTracker # {}

(* C26: when new WebSocket throws inside connect(), called by the host or  *)
(* by the reconnect timer, the failure goes into the backoff path: below   *)
(* the maximum the counter is incremented and a reconnect timer with the   *)
(* delay of the new attempt is pending; at the maximum nothing is          *)
(* scheduled.  No transport is created, the socket is kept and the ping    *)
(* and activity-check intervals are not started.                           *)
C26_CreateFailureGoesToBackoff ==
  [][ (throws /\ (ConnectCall \/ ReconnectTimerFires)) =>
        /\ IF reconnectAttempts < MAX_RECONNECT_ATTEMPTS
           THEN /\ reconnectAttempts' = reconnectAttempts + 1
                /\ reconnectTimeout' = "pending"
                /\ timers'.reconnect = 1
                /\ reconnectDelay' = BackoffDelay(reconnectAttempts + 1)
           ELSE /\ reconnectAttempts' = reconnectAttempts
                /\ reconnectTimeout' = "null"
                /\ timers'.reconnect = 0
        /\ UNCHANGED <<socket, readyState, pingInterval, activityCheckInterval>>
        /\ timers'.ping = timers.ping /\ timers'.sweep = timers.sweep ]_vars

(* Ten connects in a row failed to create a transport, and the eleventh    *)
(* found the attempts used up                                              *)
C26_Witness ==
  /\ throws
  /\ socket = Null
  /\ reconnectAttempts = MAX_RECONNECT_ATTEMPTS
  /\ reconnectTimeout = "null"
  /\ reports = 1

(* C27: the first event ever dispatched for a screen is an online event:   *)
(* while no event has been dispatched for u, the first event for u of a    *)
(* step, if it has one, carries isOnline = true.                           *)
C27_FirstEventIsOnline ==
  [][ \A u \in Usernames :
        (lastEvent[u] = "none" /\ EventsFor(events', u) # <<>>) =>
          EventsFor(events', u)[1][2] ]_vars

(* C28: whenever isScreenOnline(s) is true, the last event dispatched for  *)
(* s is an online event.                                                   *)
C28_OnlineImpliesAnnounced ==
  \A u \in Usernames : Online(u) => lastEvent[u] = "online"

(* C29: whenever the last event dispatched for s is an online event,      *)
(* isScreenOnline(s) is true.                                              *)
C29_AnnouncedImpliesOnline ==
  \A u \in Usernames : lastEvent[u] = "online" => Online(u)

(* The sweep demoted the record of a case variant of the identifier, and a *)
(* frame drawn on the card announced the screen online after that          *)
C29_Witness ==
  /\ lastEvent[<<"a">>] = "online"
  /\ Online(<<"a">>)
  /\ <<PREFIX, "A">> \in DOMAIN activityTracker
  /\ ~activityTracker[<<PREFIX, "A">>].isOnline
  /\ lastNotificationStatus[<<"a">>]

(* C30: whenever the socket is OPEN, the ping interval and the             *)
(* activity-check interval are both running.                               *)
C30_OpenImpliesTimers ==
  IsOpen => /\ pingInterval /\ timers.ping >= 1
            /\ activityCheckInterval /\ timers.sweep >= 1

(* Transports that are not closed; the service's handlers stay attached   *)
(* to every transport it created                                           *)
LiveTransports == { t \in Transports : readyState[t] \in {"CONNECTING", "OPEN", "CLOSING"} }

(* C31: at most one transport of the service is not closed at any time;    *)
(* no step, connect() or the reconnect timer, creates a transport while an *)
(* earlier one is CONNECTING or OPEN.                                      *)
C31_OneLiveTransport ==
  /\ [](Cardinality(LiveTransports) <= 1)
  /\ [][ CreatesTransport =>
           \A t \in Transports : readyState[t] \notin {"CONNECTING", "OPEN"} ]_vars

(* C32: at most one ping interval, one activity-check interval and one     *)
(* reconnect timeout is live at any time, and each live timer is the one   *)
(* whose handle the service holds: none is overwritten without being       *)
(* cleared.                                                                *)
C32_OneTimerOfEachKind ==
  /\ timers.ping = (IF pingInterval THEN 1 ELSE 0)
  /\ timers.sweep = (IF activityCheckInterval THEN 1 ELSE 0)
  /\ timers.reconnect = (IF reconnectTimeout = "pending" THEN 1 ELSE 0)

(* connect() was called twice in a row while a reconnect timer is pending: *)
(* both intervals were restarted                                           *)
C32_Witness ==
  /\ \A t \in Transports : readyState[t] = "CONNECTING"
  /\ timers = [reconnect |-> 1, ping |-> 1, sweep |-> 1]
  /\ reconnectTimeout = "pending"

(* C33: the attempt counter lies between 0 and MAX_RECONNECT_ATTEMPTS, and *)
(* no more than MAX_RECONNECT_ATTEMPTS reconnect timeouts are scheduled    *)
(* between two transport opens: every timeout scheduled since the last     *)
(* open is counted by the counter.                                         *)
C33_AttemptsBounded ==
  /\ reconnectAttempts \in 0..MAX_RECONNECT_ATTEMPTS
  /\ scheduledSinceOpen <= MAX_RECONNECT_ATTEMPTS
  /\ scheduledSinceOpen = reconnectAttempts

(* Closes, disconnect() and connect() calls used up all attempts without   *)
(* an open in between                                                      *)
C33_Witness ==
  /\ ~throws
  /\ scheduledSinceOpen = MAX_RECONNECT_ATTEMPTS
  /\ reconnectAttempts = MAX_RECONNECT_ATTEMPTS
  /\ reports = 1
  /\ shutdown

(* No transport is OPEN: no frame can arrive *)
ConnectionLost == \A t \in Transports : readyState[t] # "OPEN"

(* C34: a screen that is online when the connection is lost does not stay  *)
(* online forever: unless a transport opens again (and frames can arrive), *)
(* isScreenOnline(s) eventually is false, also during backoff and after    *)
(* the attempts are exhausted.                                             *)
C34_LostScreensGoOffline ==
  \A u \in Usernames :
    (ConnectionLost /\ Online(u)) ~> (~Online(u) \/ ~ConnectionLost)

(* C35: the identify message of an open goes to the transport that        *)
(* opened: in the step that handles the open of transport t, an identify   *)
(* message is written to t and nothing is written to any other transport,  *)
(* whether or not t is still the socket the service holds.                 *)
C35_IdentifyGoesToOpenedTransport ==
  [][ \A t \in Transports :
        TransportOpen(t) =>
          /\ \E i \in DOMAIN sent' : sent'[i] = <<t, "identify">>
          /\ \A i \in DOMAIN sent' : sent'[i][1] = t ]_vars

(* C36: when the modal is opened for a screen, the status it reads from   *)
(* isScreenOnline is the status the screen's card shows, which the         *)
(* Dashboard derived from the last event for the screen.                   *)
C36_ModalAgreesWithCard ==
  [][ \A name \in Collaborators :
        OpenModal(name) => modalOffline' = cardOffline[name] ]_vars

====
